---- MODULE Spec2Model ----
(***************************************************************************)
(* Model of utils/inference.py of the MITRE technique inference notebook:  *)
(*   - ShapPipeline.go          (token attribution buckets)                *)
(*   - format_predictions       (threshold, filter, enrich, explain, rows) *)
(*   - print_detailed_report / _process_shap_explainability_for_row        *)
(*   - transform_list_of_ioc_dicts (IOC merge and flattening)              *)
(*                                                                         *)
(* Conventions.  A Python list is a sequence.  A Python dict is a sequence *)
(* of <<key, value>> pairs with distinct keys, in insertion order.  A      *)
(* DataFrame is the sequence of its rows (pd.DataFrame() is <<>>).  A      *)
(* confidence score s/MaxScore is the integer s; a SHAP value is an        *)
(* integer number of millionths before rounding and of hundred-thousandths *)
(* after np.round(_, 5).  A token is a sequence of one-character strings.  *)
(***************************************************************************)
EXTENDS Integers, Sequences, FiniteSets, TLC

VARIABLES
    pc,                     \* position of the caller / of format_predictions
    configs,                \* the caller's configuration dict (shared object)
    configured,             \* the threshold the caller wrote into configs
    score_at_call,          \* configs['score'] when the current call began
    processed_data_object,  \* process.ProcessData: chunked_data, processed_data, iocs
    labels,                 \* label_to_technique, technique_to_name
    outputs,                \* model.go(...) result, enriched in place
    inference_list,         \* rows built so far
    i,                      \* 0-based loop index of format_predictions
    shap_calls,             \* arguments of every shap_obj.go call of this invocation
    log,                    \* lines printed by format_predictions
    inference_df,           \* returned Report
    iocs_df,                \* returned IOC table
    exception,              \* exception that ended the last operation, or "none"
    printed,                \* what print_detailed_report did
    row_index,              \* argument of _process_shap_explainability_for_row
    row_shown,              \* 0-based position iloc resolved row_index to, or -1
    arg_rows,               \* number of rows of the DataFrame last handed to a printer
    hash_order,             \* iteration order of str sets in this interpreter
    ioc_dicts,              \* argument of transform_list_of_ioc_dicts
    first_df,               \* table of the first aggregation (idempotence run)
    shap_values,            \* explainer output: [data, values]
    shap_base,              \* ShapPipeline.go result, first component
    shap_contribution       \* ShapPipeline.go result, second component

vars == << pc, configs, configured, score_at_call, processed_data_object, labels,
           outputs, inference_list, i, shap_calls, log, inference_df, iocs_df,
           exception, printed, row_index, row_shown, arg_rows, hash_order,
           ioc_dicts, first_df, shap_values, shap_base, shap_contribution >>

formatVars == << configs, configured, score_at_call, processed_data_object, labels,
                 outputs, inference_list, i, shap_calls, log, inference_df, iocs_df,
                 exception, printed, row_index, row_shown, arg_rows >>

iocVars == << ioc_dicts, first_df >>

shapVars == << shap_values, shap_base, shap_contribution >>

----------------------------------------------------------------------------
(* Bounds of the model *)

MaxChunks == 2          \* chunks per format_predictions invocation
MaxScore == 3           \* confidence resolution: scores are 0/MaxScore .. MaxScore/MaxScore
MaxTokens == 3          \* tokens per explained text
MaxIocChunks == 2       \* chunk mappings per transform_list_of_ioc_dicts call

Scores == 0 .. MaxScore
Thresholds == 0 .. (MaxScore + 1)
RowIndices == (0 - (MaxChunks + 1)) .. (MaxChunks + 1)

----------------------------------------------------------------------------
(* Python containers *)

Range(s) == { s[j] : j \in 1 .. Len(s) }

SeqsUpTo(S, n) == UNION { [1 .. m -> S] : m \in 0 .. n }

Keys(d) == { d[j][1] : j \in 1 .. Len(d) }

Values(d) == { d[j][2] : j \in 1 .. Len(d) }

Get(d, k) == LET j == CHOOSE j \in 1 .. Len(d) : d[j][1] = k IN d[j][2]

\* d[k] = v: an existing key keeps its position, a new key is appended
Put(d, k, v) ==
    IF k \in Keys(d)
    THEN [ j \in 1 .. Len(d) |-> IF d[j][1] = k THEN << k, v >> ELSE d[j] ]
    ELSE Append(d, << k, v >>)

\* defaultdict(list)[k]
GetDefault(d, k) == IF k \in Keys(d) THEN Get(d, k) ELSE << >>

RECURSIVE DictZipUpTo(_, _, _)
DictZipUpTo(ks, vs, m) ==
    IF m = 0 THEN << >>
    ELSE Put(DictZipUpTo(ks, vs, m - 1), ks[m], vs[m])

\* dict(zip(ks, vs)): later pairs overwrite earlier ones with the same key
DictZip(ks, vs) ==
    DictZipUpTo(ks, vs, IF Len(ks) < Len(vs) THEN Len(ks) ELSE Len(vs))

\* a[mask] for a boolean mask of the same length
RECURSIVE MaskSelectUpTo(_, _, _)
MaskSelectUpTo(a, mask, m) ==
    IF m = 0 THEN << >>
    ELSE IF mask[m] THEN Append(MaskSelectUpTo(a, mask, m - 1), a[m])
         ELSE MaskSelectUpTo(a, mask, m - 1)

MaskSelect(a, mask) == MaskSelectUpTo(a, mask, Len(a))

\* list(set(xs)): the elements of xs once each, in the interpreter's set order
ListOfSet(xs, order) == SelectSeq(order, LAMBDA x : x \in Range(xs))

Permutations_(S) ==
    { p \in [1 .. Cardinality(S) -> S] : Range(p) = S }

----------------------------------------------------------------------------
(* ShapPipeline.go, lines 59-88 *)

Marker == "G"           \* stands for U+0120, the tokenizer's start-of-word marker
Whitespace == { " " }

\* what the opaque explainer may return for one text and label: tokens, their
\* contributions, and the (uninterpreted) baseline
RawTokens == { << "G", "a" >>, << "a" >>, << "b", " " >> }
RawValues == { 0 - 6, 0, 4, 5, 15 }

ExplainerOutputs ==
    UNION { { [ data |-> d, values |-> v, base_values |-> "base" ] :
                d \in [1 .. m -> RawTokens], v \in [1 .. m -> RawValues] } :
            m \in 0 .. MaxTokens }

\* np.round(x, 5) of x millionths, in hundred-thousandths (round half to even)
round5(x) ==
    LET q == x \div 10
        r == x % 10
    IN  IF r < 5 THEN q
        ELSE IF r > 5 THEN q + 1
        ELSE IF q % 2 = 0 THEN q ELSE q + 1

RECURSIVE lstrip(_)
lstrip(tok) ==
    IF Len(tok) > 0 /\ Head(tok) \in Whitespace THEN lstrip(Tail(tok)) ELSE tok

RECURSIVE rstrip(_)
rstrip(tok) ==
    IF Len(tok) > 0 /\ tok[Len(tok)] \in Whitespace
    THEN rstrip(SubSeq(tok, 1, Len(tok) - 1))
    ELSE tok

\* np.char.strip
strip(tok) == rstrip(lstrip(tok))

\* re.sub(r'<marker>', '', el)
re_sub_marker(tok) == SelectSeq(tok, LAMBDA c : c # Marker)

token_processed(data) ==
    [ j \in 1 .. Len(data) |-> re_sub_marker(strip(data[j])) ]

positive_indices_nonneg(vals) == [ j \in 1 .. Len(vals) |-> vals[j] >= 0 ]

positive_indices(vals) == [ j \in 1 .. Len(vals) |-> vals[j] > 0 ]

neutral_indices(vals) == [ j \in 1 .. Len(vals) |-> vals[j] = 0 ]

negative_indices(vals) == [ j \in 1 .. Len(vals) |-> vals[j] < 0 ]

make_shap_base(sv) ==
    [ values |-> [ j \in 1 .. Len(sv.values) |-> round5(sv.values[j]) ],
      base_values |-> sv.base_values,
      data |-> sv.data,
      token_processed |-> token_processed(sv.data) ]

make_shap_contribution(base) ==
    [ positive |-> DictZip(MaskSelect(base.token_processed, positive_indices(base.values)),
                           MaskSelect(base.values, positive_indices(base.values))),
      neutral  |-> DictZip(MaskSelect(base.token_processed, neutral_indices(base.values)),
                           MaskSelect(base.values, neutral_indices(base.values))),
      negative |-> DictZip(MaskSelect(base.token_processed, negative_indices(base.values)),
                           MaskSelect(base.values, negative_indices(base.values))) ]

NoShap == [ data |-> << >>, values |-> << >>, base_values |-> "base" ]

NoContribution == [ positive |-> << >>, neutral |-> << >>, negative |-> << >> ]

\* ShapPipeline.go(text, output) on the explainer's answer shap_values
ShapGo ==
    /\ pc = "shap_input"
    /\ shap_base' = make_shap_base(shap_values)
    /\ shap_contribution' = make_shap_contribution(make_shap_base(shap_values))
    /\ pc' = "shap_done"
    /\ UNCHANGED << formatVars, iocVars, hash_order, shap_values >>

----------------------------------------------------------------------------
(* transform_list_of_ioc_dicts, lines 229-251 *)

IocTypes == { "ip", "url" }
IocValues == { "1.1.1.1", "2.2.2.2" }
IocLists == { << >>, << "1.1.1.1" >>, << "1.1.1.1", "2.2.2.2" >>,
              << "2.2.2.2", "2.2.2.2" >> }

\* per-chunk IOC mappings: dicts from IOC type to a list of IOC values
IocDicts ==
    { d \in SeqsUpTo(IocTypes \X IocLists, Cardinality(IocTypes)) :
        \A a, b \in 1 .. Len(d) : d[a][1] = d[b][1] => a = b }

merge_values_no_dedup(old, v, order) == old \o v

merge_values_overwrite(old, v, order) == ListOfSet(v, order)

\* list(set(super_dict[k] + v))
merge_values(old, v, order) == ListOfSet(old \o v, order)

\* for k, v in d.items(): super_dict[k] = ...   (the first m items of d)
RECURSIVE merge_items(_, _, _, _)
merge_items(super_dict, d, m, order) ==
    IF m = 0 THEN super_dict
    ELSE LET sd == merge_items(super_dict, d, m - 1, order)
             k == d[m][1]
             v == d[m][2]
         IN  Put(sd, k, merge_values(GetDefault(sd, k), v, order))

\* for d in ioc_dicts: ...   (the first n dicts)
RECURSIVE merge_dicts(_, _, _)
merge_dicts(dicts, n, order) ==
    IF n = 0 THEN << >>
    ELSE merge_items(merge_dicts(dicts, n - 1, order), dicts[n], Len(dicts[n]), order)

ioc_rows(key, list_iocs) ==
    [ j \in 1 .. Len(list_iocs) |-> [ IOC_Type |-> key, IOC_Value |-> list_iocs[j] ] ]

\* for key, list_iocs in dict(super_dict).items(): ...   (the first m items)
RECURSIVE make_super_list(_, _)
make_super_list(super_dict, m) ==
    IF m = 0 THEN << >>
    ELSE IF Len(super_dict[m][2]) > 0
         THEN make_super_list(super_dict, m - 1)
                  \o ioc_rows(super_dict[m][1], super_dict[m][2])
         ELSE make_super_list(super_dict, m - 1)

transform_list_of_ioc_dicts(dicts, order) ==
    LET super_dict == merge_dicts(dicts, Len(dicts), order)
        super_list == make_super_list(super_dict, Len(super_dict))
    IN  IF Len(super_list) > 0 THEN super_list ELSE << >>

\* one single-entry mapping {type: [value]} per row of a table
reshape_rows(df) ==
    [ j \in 1 .. Len(df) |-> << << df[j].IOC_Type, << df[j].IOC_Value >> >> >> ]

\* a caller aggregates the IOC mappings ioc_dicts of some chunks
Aggregate ==
    /\ pc = "ioc_input"
    /\ iocs_df' = transform_list_of_ioc_dicts(ioc_dicts, hash_order)
    /\ pc' = "ioc_done"
    /\ UNCHANGED << ioc_dicts, first_df >>
    /\ UNCHANGED << configs, configured, score_at_call, processed_data_object, labels,
                    outputs, inference_list, i, shap_calls, log, inference_df,
                    exception, printed, row_index, row_shown, arg_rows, hash_order, shapVars >>

\* a caller aggregates the rows of the table it got, one mapping per row
Reaggregate ==
    /\ pc = "ioc_done"
    /\ first_df' = iocs_df
    /\ ioc_dicts' = reshape_rows(iocs_df)
    /\ iocs_df' = transform_list_of_ioc_dicts(reshape_rows(iocs_df), hash_order)
    /\ pc' = "ioc_again"
    /\ UNCHANGED << configs, configured, score_at_call, processed_data_object, labels,
                    outputs, inference_list, i, shap_calls, log, inference_df,
                    exception, printed, row_index, row_shown, arg_rows, hash_order, shapVars >>

----------------------------------------------------------------------------
(* format_predictions, lines 90-147 *)

chunk_num_sentences == 3

\* the classifier's labels, "LABEL_<int>", as character sequences
LabelStrings == { << "L", "A", "B", "E", "L", "_", "3" >>,
                  << "L", "A", "B", "E", "L", "_", "7" >> }

\* str.split('_') of the first m characters
RECURSIVE split_upto(_, _)
split_upto(str, m) ==
    IF m = 0 THEN << << >> >>
    ELSE LET prev == split_upto(str, m - 1)
         IN  IF str[m] = "_"
             THEN Append(prev, << >>)
             ELSE [ prev EXCEPT ![Len(prev)] = Append(@, str[m]) ]

split_label(label) == split_upto(label, Len(label))

DigitChars == << "0", "1", "2", "3", "4", "5", "6", "7", "8", "9" >>

\* int(...) of a decimal string
RECURSIVE int_of(_)
int_of(str) ==
    IF Len(str) = 0 THEN 0
    ELSE 10 * int_of(SubSeq(str, 1, Len(str) - 1))
         + ((CHOOSE d \in 1 .. 10 : DigitChars[d] = str[Len(str)]) - 1)

\* the label metadata the caller loads: class 7 has no technique
LabelMetadata ==
    [ label_to_technique |-> << << 3, "T1566" >> >>,
      technique_to_name |-> << << "T1566", "Phishing" >> >> ]

\* IOC mappings the upstream producer attaches to the chunks of one document
MainIocDicts == { << >>, << << "ip", << "1.1.1.1" >> >> >> }

max_score(outs) ==
    CHOOSE m \in { outs[j].score : j \in 1 .. Len(outs) } :
        \A j \in 1 .. Len(outs) : outs[j].score <= m

needs_relax_gt(outs, score) == max_score(outs) > score

\* max([el['score'] for el in outputs]) < configs['score']
needs_relax(outs, score) == max_score(outs) < score

below_threshold_le(score, threshold) == score <= threshold

\* outputs[i]['score'] < configs['score']
below_threshold(score, threshold) == score < threshold

explain_text_processed(pdo, idx) == pdo.processed_data[idx + 1]

\* the text handed to shap_obj.go: ti_chunk
explain_text(pdo, idx) == pdo.chunked_data[idx + 1]

class_index(output) == int_of(split_label(output.label)[2])

enrich(output, lbls) ==
    LET technique == Get(lbls.label_to_technique, class_index(output))
    IN  [ label |-> output.label,
          score |-> output.score,
          technique |-> technique,
          technique_name |-> Get(lbls.technique_to_name, technique),
          webpage_link |-> << "https://attack.mitre.org/techniques/", technique, "/" >> ]

is_enriched(output) ==
    { "technique", "technique_name", "webpage_link" } \subseteq DOMAIN output

\* the opaque explainer's answer for (text, output), kept symbolic here
shap_result(text, output) ==
    [ shap_base |-> << "shap_base", text, output.label >>,
      shap_contribution |-> << "shap_contribution", text, output.label >> ]

make_row_zero_based(pdo, idx, output, shap) ==
    [ chunk_no |-> idx,
      sentences_no |-> << idx * chunk_num_sentences + 1, idx * chunk_num_sentences + 3 >>,
      threat_intel |-> pdo.chunked_data[idx + 1],
      processed_threat_intel |-> pdo.processed_data[idx + 1],
      model |-> "distilgpt2-512",
      iocs |-> pdo.iocs[idx + 1],
      output |-> output,
      shap_base |-> shap.shap_base,
      shap_contribution |-> shap.shap_contribution ]

\* lines 112-122 and 130-132: the row of 0-based chunk idx
make_row(pdo, idx, output, shap) ==
    [ chunk_no |-> idx + 1,
      sentences_no |-> << idx * chunk_num_sentences + 1, idx * chunk_num_sentences + 3 >>,
      threat_intel |-> pdo.chunked_data[idx + 1],
      processed_threat_intel |-> pdo.processed_data[idx + 1],
      model |-> "distilgpt2-512",
      iocs |-> pdo.iocs[idx + 1],
      output |-> output,
      shap_base |-> shap.shap_base,
      shap_contribution |-> shap.shap_contribution ]

\* where the caller can start a printer / has finished an operation
Callable == { "idle", "returned", "raised" }
AtRest == Callable \cup { "printed", "row_done" }

NoDocument == [ chunked_data |-> << >>, processed_data |-> << >>, iocs |-> << >> ]

NoPrint == [ threshold |-> 0, no_techniques |-> FALSE, rows |-> << >> ]

\* lines 97-102: the caller passes its configs and a processed document
Call ==
    /\ pc = "idle"
    /\ \E n \in 0 .. MaxChunks :
       \E outs \in [1 .. n -> [ label : LabelStrings, score : Scores ]] :
       \E d \in MainIocDicts :
          /\ processed_data_object' =
                [ chunked_data |-> [ j \in 1 .. n |-> << "raw", j >> ],
                  processed_data |-> [ j \in 1 .. n |-> << "processed", j >> ],
                  iocs |-> [ j \in 1 .. n |-> d ] ]
          /\ outputs' = outs
    /\ score_at_call' = configs.score
    /\ inference_list' = << >>
    /\ i' = 0
    /\ shap_calls' = << >>
    /\ log' = << >>
    /\ inference_df' = << >>
    /\ iocs_df' = << >>
    /\ exception' = "none"
    /\ printed' = NoPrint
    /\ row_index' = 0
    /\ row_shown' = 0 - 1
    /\ arg_rows' = 0
    /\ pc' = "threshold"
    /\ UNCHANGED << configs, configured, labels, hash_order, iocVars, shapVars >>

\* lines 104-106
ThresholdResolution ==
    /\ pc = "threshold"
    /\ IF Len(outputs) = 0
       THEN /\ exception' = "ValueError"     \* max() of an empty list
            /\ pc' = "raised"
            /\ UNCHANGED << configs, log >>
       ELSE /\ IF needs_relax(outputs, configs.score)
               THEN /\ log' = Append(log, "Resetting confidence threshold to 0.0.")
                    /\ configs' = [ configs EXCEPT !.score = 0 ]
               ELSE UNCHANGED << configs, log >>
            /\ pc' = "loop"
            /\ UNCHANGED exception
    /\ UNCHANGED << configured, score_at_call, processed_data_object, labels, outputs,
                    inference_list, i, shap_calls, inference_df, iocs_df, printed,
                    row_index, row_shown, arg_rows, hash_order, iocVars, shapVars >>

\* lines 108-110: loop head and confidence filter
LoopStep ==
    /\ pc = "loop"
    /\ IF i >= Len(processed_data_object.chunked_data)
       THEN pc' = "assemble" /\ i' = i
       ELSE IF below_threshold(outputs[i + 1].score, configs.score)
            THEN pc' = "loop" /\ i' = i + 1
            ELSE pc' = "enrich" /\ i' = i
    /\ UNCHANGED << configs, configured, score_at_call, processed_data_object, labels,
                    outputs, inference_list, shap_calls, log, inference_df, iocs_df,
                    exception, printed, row_index, row_shown, arg_rows, hash_order, iocVars,
                    shapVars >>

\* lines 112-127
Enrich ==
    /\ pc = "enrich"
    /\ IF class_index(outputs[i + 1]) \in Keys(labels.label_to_technique)
       THEN /\ outputs' = [ outputs EXCEPT ![i + 1] = enrich(outputs[i + 1], labels) ]
            /\ pc' = "explain"
            /\ UNCHANGED exception
       ELSE /\ exception' = "KeyError"
            /\ pc' = "raised"
            /\ UNCHANGED outputs
    /\ UNCHANGED << configs, configured, score_at_call, processed_data_object, labels,
                    inference_list, i, shap_calls, log, inference_df, iocs_df,
                    printed, row_index, row_shown, arg_rows, hash_order, iocVars, shapVars >>

\* line 128
Explain ==
    /\ pc = "explain"
    /\ shap_calls' = Append(shap_calls,
                            [ text |-> explain_text(processed_data_object, i),
                              output |-> outputs[i + 1] ])
    /\ pc' = "append"
    /\ UNCHANGED << configs, configured, score_at_call, processed_data_object, labels,
                    outputs, inference_list, i, log, inference_df, iocs_df, exception,
                    printed, row_index, row_shown, arg_rows, hash_order, iocVars, shapVars >>

\* lines 130-134
AppendRow ==
    /\ pc = "append"
    /\ LET call == shap_calls[Len(shap_calls)]
       IN  inference_list' =
              Append(inference_list,
                     make_row(processed_data_object, i, outputs[i + 1],
                              shap_result(call.text, call.output)))
    /\ i' = i + 1
    /\ pc' = "loop"
    /\ UNCHANGED << configs, configured, score_at_call, processed_data_object, labels,
                    outputs, shap_calls, log, inference_df, iocs_df, exception,
                    printed, row_index, row_shown, arg_rows, hash_order, iocVars, shapVars >>

\* lines 136-147
Assemble ==
    /\ pc = "assemble"
    /\ inference_df' = IF Len(inference_list) > 0 THEN inference_list ELSE << >>
    /\ iocs_df' = transform_list_of_ioc_dicts(processed_data_object.iocs, hash_order)
    /\ pc' = "returned"
    /\ UNCHANGED << configs, configured, score_at_call, processed_data_object, labels,
                    outputs, inference_list, i, shap_calls, log, exception, printed,
                    row_index, row_shown, arg_rows, hash_order, iocVars, shapVars >>

----------------------------------------------------------------------------
(* print_detailed_report, lines 161-177, and                               *)
(* _process_shap_explainability_for_row, lines 179-227                     *)

iloc_in_bounds_inclusive(n, k) == (0 - n) <= k /\ k <= n

\* DataFrame.iloc[k] of an n-row frame: positions -n .. n-1 exist
iloc_in_bounds(n, k) == (0 - n) <= k /\ k < n

\* the 0-based row iloc[k] reads
iloc_position(n, k) == IF k < 0 THEN n + k ELSE k

\* the DataFrames a caller hands to the printers: the Report it got, or an empty one
ReportArgs == { inference_df, << >> }

\* lines 161-177; every row request of the loop is in range(len(inference_df))
PrintDetailedReport ==
    /\ pc \in Callable
    /\ \E df \in ReportArgs :
          /\ arg_rows' = Len(df)
          /\ printed' =
                [ threshold |-> configs.score,
                  no_techniques |-> (Len(df) = 0),
                  rows |-> IF Len(df) = 0 THEN << >>
                           ELSE [ j \in 1 .. Len(df) |-> iloc_position(Len(df), j - 1) ] ]
    /\ row_index' = 0
    /\ row_shown' = 0 - 1
    /\ exception' = "none"
    /\ pc' = "printed"
    /\ UNCHANGED << configs, configured, score_at_call, processed_data_object, labels,
                    outputs, inference_list, i, shap_calls, log, inference_df, iocs_df,
                    hash_order, iocVars, shapVars >>

\* lines 179-192: a caller asks for one row by index
ProcessRow ==
    /\ pc \in Callable
    /\ \E df \in ReportArgs :
       \E k \in RowIndices :
          /\ arg_rows' = Len(df)
          /\ row_index' = k
          /\ IF iloc_in_bounds(Len(df), k)
             THEN /\ row_shown' = iloc_position(Len(df), k)
                  /\ exception' = "none"
             ELSE /\ row_shown' = 0 - 1
                  /\ exception' = "IndexError"
    /\ printed' = NoPrint
    /\ pc' = "row_done"
    /\ UNCHANGED << configs, configured, score_at_call, processed_data_object, labels,
                    outputs, inference_list, i, shap_calls, log, inference_df, iocs_df,
                    hash_order, iocVars, shapVars >>

\* line 147 and after: the caller is done with the results of an operation and
\* drops them; only its configs object (and the interpreter) live on
Release ==
    /\ pc \in AtRest \ { "idle" }
    /\ pc' = "idle"
    /\ score_at_call' = configs.score
    /\ processed_data_object' = NoDocument
    /\ outputs' = << >>
    /\ inference_list' = << >>
    /\ i' = 0
    /\ shap_calls' = << >>
    /\ log' = << >>
    /\ inference_df' = << >>
    /\ iocs_df' = << >>
    /\ exception' = "none"
    /\ printed' = NoPrint
    /\ row_index' = 0
    /\ row_shown' = 0 - 1
    /\ arg_rows' = 0
    /\ UNCHANGED << configs, configured, labels, hash_order, iocVars, shapVars >>

----------------------------------------------------------------------------
(* Specifications *)

InitFormatVars ==
    /\ score_at_call = configs.score
    /\ processed_data_object = NoDocument
    /\ labels = LabelMetadata
    /\ outputs = << >>
    /\ inference_list = << >>
    /\ i = 0
    /\ shap_calls = << >>
    /\ log = << >>
    /\ inference_df = << >>
    /\ iocs_df = << >>
    /\ exception = "none"
    /\ printed = NoPrint
    /\ row_index = 0
    /\ row_shown = 0 - 1
    /\ arg_rows = 0

InitIocVars == ioc_dicts = << >> /\ first_df = << >>

FixedOrder == CHOOSE p \in Permutations_(IocValues) : TRUE

InitShapVars ==
    /\ shap_values = NoShap
    /\ shap_base = make_shap_base(NoShap)
    /\ shap_contribution = NoContribution

\* a caller that configures a threshold and formats and prints documents
Init ==
    /\ pc = "idle"
    /\ \E t \in Thresholds :
          /\ configs = [ score |-> t, ti |-> "threat intel" ]
          /\ configured = t
    /\ hash_order \in Permutations_(IocValues)
    /\ InitFormatVars
    /\ InitIocVars
    /\ InitShapVars

Next ==
    \/ Call
    \/ ThresholdResolution
    \/ LoopStep
    \/ Enrich
    \/ Explain
    \/ AppendRow
    \/ Assemble
    \/ PrintDetailedReport
    \/ ProcessRow
    \/ Release

Spec == Init /\ [][Next]_vars

\* a caller of the IOC aggregator alone
InitIoc ==
    /\ pc = "ioc_input"
    /\ configs = [ score |-> 0, ti |-> "threat intel" ]
    /\ configured = 0
    /\ hash_order \in Permutations_(IocValues)
    /\ InitFormatVars
    /\ ioc_dicts \in SeqsUpTo(IocDicts, MaxIocChunks)
    /\ first_df = << >>
    /\ InitShapVars

NextIoc ==
    \/ Aggregate
    \/ Reaggregate

SpecIoc == InitIoc /\ [][NextIoc]_vars

\* a caller of the attribution adapter alone
InitShap ==
    /\ pc = "shap_input"
    /\ configs = [ score |-> 0, ti |-> "threat intel" ]
    /\ configured = 0
    /\ hash_order = FixedOrder
    /\ InitFormatVars
    /\ InitIocVars
    /\ shap_values \in ExplainerOutputs
    /\ shap_base = make_shap_base(NoShap)
    /\ shap_contribution = NoContribution

NextShap == ShapGo

SpecShap == InitShap /\ [][NextShap]_vars

----------------------------------------------------------------------------
(* Properties of format_predictions (specification Spec) *)

NumChunks == Len(processed_data_object.chunked_data)

\* the threshold has been resolved and the call has not raised
InLoop == pc \in { "loop", "enrich", "explain", "append", "assemble", "returned" }

\* 1-based chunks whose confidence is at least the effective threshold, in order
Survivors ==
    SelectSeq([ j \in 1 .. Len(outputs) |-> j ],
              LAMBDA j : outputs[j].score >= configs.score)

\* C1: when every confidence of a non-empty prediction sequence is below the
\* threshold the call started with, the threshold used from then on is 0.0 and
\* the returned Report has one row per input chunk, in chunk order.
C1_RelaxRetainsAll ==
    (InLoop /\ Len(outputs) > 0 /\ max_score(outputs) < score_at_call)
        => /\ configs.score = 0
           /\ pc = "returned"
                => /\ Len(inference_df) = NumChunks
                   /\ \A j \in 1 .. NumChunks : inference_df[j].chunk_no = j

C1_Witness ==
    /\ pc = "returned"
    /\ Len(outputs) >= 2
    /\ score_at_call <= MaxScore
    /\ max_score(outputs) < score_at_call
    /\ Len(inference_df) = Len(outputs)

\* C2: the returned Report is exactly the subsequence, in chunk order, of the
\* chunks whose confidence is >= the effective threshold; the row of 0-based
\* chunk i carries ordinal i+1 (and that chunk's texts).
C2_ReportIsFilteredSubsequence ==
    pc = "returned"
        => /\ Len(inference_df) = Len(Survivors)
           /\ \A r \in 1 .. Len(inference_df) :
                 /\ inference_df[r].chunk_no = Survivors[r]
                 /\ inference_df[r].threat_intel
                       = processed_data_object.chunked_data[Survivors[r]]
                 /\ inference_df[r].output.score >= configs.score
           /\ \A j \in 1 .. NumChunks :
                 outputs[j].score < configs.score
                    => \A r \in 1 .. Len(inference_df) : inference_df[r].chunk_no # j

C2_Witness ==
    /\ pc = "returned"
    /\ configs.score > 0
    /\ \E j \in 1 .. NumChunks : outputs[j].score < configs.score
    /\ \E r \in 1 .. Len(inference_df) : inference_df[r].output.score = configs.score
    /\ inference_df[1].chunk_no = 2

\* C3 (as claimed): a call with an empty chunk sequence does not raise and
\* returns an empty Report and an empty IOC table.
C3_EmptyInputReturnsEmpty ==
    (pc \in { "loop", "assemble", "returned", "raised" } /\ NumChunks = 0)
        => /\ pc # "raised"
           /\ exception = "none"
           /\ pc = "returned" => (inference_df = << >> /\ iocs_df = << >>)

\* C4 (as claimed): format_predictions never changes the caller's
\* configuration, so every invocation filters against the configured threshold.
C4_ConfigNeverChanged == configs.score = configured

\* C9: shap_obj.go is called exactly once for each surviving chunk, never for a
\* skipped one, in increasing chunk order, with the chunk's raw text and its
\* already enriched prediction, and before the chunk's row is appended.
C9_ExplainOncePerSurvivor ==
    InLoop
        => /\ Len(shap_calls) =
                 Cardinality({ k \in 1 .. Len(Survivors) : Survivors[k] <= i })
                    + (IF pc = "append" THEN 1 ELSE 0)
           /\ pc \in { "assemble", "returned" } => i = NumChunks
           /\ \A k \in 1 .. Len(shap_calls) :
                 /\ shap_calls[k].text
                       = processed_data_object.chunked_data[Survivors[k]]
                 /\ shap_calls[k].output = outputs[Survivors[k]]
                 /\ is_enriched(shap_calls[k].output)
           /\ Len(inference_list) = Len(shap_calls) - (IF pc = "append" THEN 1 ELSE 0)
           /\ \A r \in 1 .. Len(inference_list) :
                 /\ inference_list[r].threat_intel = shap_calls[r].text
                 /\ inference_list[r].output = shap_calls[r].output

C9_Witness ==
    /\ pc = "append"
    /\ Len(shap_calls) = 2
    /\ Len(inference_list) = 1
    /\ shap_calls[1].text = << "raw", 1 >>
    /\ shap_calls[2].text = << "raw", 2 >>

\* C10: a call on a non-empty chunk sequence that returns (every predicted class
\* is in the label map) returns a Report with at least one row, whatever the
\* threshold, thresholds above 1 included.
C10_NonEmptyInputNonEmptyReport ==
    (pc = "returned" /\ NumChunks > 0) => Len(inference_df) >= 1

C10_Witness ==
    /\ pc = "returned"
    /\ NumChunks > 0
    /\ score_at_call > MaxScore
    /\ Len(inference_df) >= 1

----------------------------------------------------------------------------
(* Properties of the printers (specification Spec) *)

\* C8 (as claimed): every index outside 0..n-1 of an n-row Report, negative
\* ones included, raises IndexError; printing a zero-row Report prints the
\* no-techniques message and requests no row.
C8_OutsideZeroToNRaises ==
    /\ (pc = "row_done" /\ ~ (0 <= row_index /\ row_index < arg_rows))
          => exception = "IndexError"
    /\ (pc = "printed" /\ arg_rows = 0)
          => (printed.no_techniques /\ printed.rows = << >> /\ exception = "none")

\* C8 (amended): an index k raises IndexError exactly when it is outside
\* -n..n-1; an index in -n..-1 reads row n+k and one in 0..n-1 reads row k;
\* printing a zero-row Report prints the message and requests no row.
C8_OutsideMinusNToNRaises ==
    /\ pc = "row_done"
          => /\ exception = "IndexError"
                   <=> (row_index < 0 - arg_rows \/ row_index >= arg_rows)
             /\ (0 <= row_index /\ row_index < arg_rows) => row_shown = row_index
             /\ (0 - arg_rows <= row_index /\ row_index < 0)
                   => row_shown = arg_rows + row_index
    /\ (pc = "printed" /\ arg_rows = 0)
          => (printed.no_techniques /\ printed.rows = << >> /\ exception = "none")
    /\ (pc = "printed" /\ arg_rows > 0)
          => (~ printed.no_techniques
              /\ printed.rows = [ j \in 1 .. arg_rows |-> j - 1 ])

C8_Witness ==
    /\ pc = "row_done"
    /\ arg_rows >= 2
    /\ row_index = arg_rows
    /\ exception = "IndexError"

----------------------------------------------------------------------------
(* Properties of ShapPipeline.go (specification SpecShap) *)

Buckets == { "positive", "neutral", "negative" }

sign_of(v) == IF v > 0 THEN "positive" ELSE IF v < 0 THEN "negative" ELSE "neutral"

Tokens == shap_base.token_processed

BucketSizes ==
    Len(shap_contribution.positive) + Len(shap_contribution.neutral)
        + Len(shap_contribution.negative)

SignsRight ==
    /\ \A v \in Values(shap_contribution.positive) : v > 0
    /\ \A v \in Values(shap_contribution.negative) : v < 0
    /\ \A v \in Values(shap_contribution.neutral) : v = 0

\* C5 (as claimed): every distinct token string is a key of exactly one bucket,
\* the bucket sizes add up to the number of distinct token strings, and the
\* values of each bucket have the bucket's sign.
C5_BucketsPartitionTokens ==
    pc = "shap_done"
        => /\ \A tok \in Range(Tokens) :
                 Cardinality({ b \in Buckets : tok \in Keys(shap_contribution[b]) }) = 1
           /\ BucketSizes = Cardinality(Range(Tokens))
           /\ SignsRight

\* C5 (amended): the values of each bucket have the bucket's sign; a token
\* string is a key of a bucket exactly when one of its occurrences has that
\* sign, with the value of its last such occurrence; so every distinct token
\* string is a key of at least one bucket and the bucket sizes add up to the
\* number of distinct (token string, sign) pairs, at least the number of
\* distinct token strings.
C5_BucketsCoverTokensBySign ==
    pc = "shap_done"
        => /\ SignsRight
           /\ \A b \in Buckets :
                 /\ Keys(shap_contribution[b])
                       = { Tokens[j] : j \in { m \in 1 .. Len(Tokens) :
                                                 sign_of(shap_base.values[m]) = b } }
                 /\ \A j \in 1 .. Len(Tokens) :
                       (/\ sign_of(shap_base.values[j]) = b
                        /\ \A m \in (j + 1) .. Len(Tokens) :
                              ~ (Tokens[m] = Tokens[j] /\ sign_of(shap_base.values[m]) = b))
                          => Get(shap_contribution[b], Tokens[j]) = shap_base.values[j]
           /\ \A tok \in Range(Tokens) :
                 \E b \in Buckets : tok \in Keys(shap_contribution[b])
           /\ BucketSizes =
                 Cardinality({ << Tokens[j], sign_of(shap_base.values[j]) >> :
                               j \in 1 .. Len(Tokens) })
           /\ BucketSizes >= Cardinality(Range(Tokens))
           /\ \A j \in 1 .. Len(Tokens) :
                 shap_base.values[j] = round5(shap_values.values[j])

C5_Witness ==
    /\ pc = "shap_done"
    /\ shap_values.data = << << "G", "a" >>, << "a" >> >>
    /\ << "a" >> \in Keys(shap_contribution.positive)
    /\ << "a" >> \in Keys(shap_contribution.negative)
    /\ BucketSizes = 2

----------------------------------------------------------------------------
(* Properties of transform_list_of_ioc_dicts (specification SpecIoc) *)

\* the (type, value) pairs that occur in some chunk mapping
InputPairs ==
    { p \in IocTypes \X IocValues :
        \E c \in 1 .. Len(ioc_dicts) :
            /\ p[1] \in Keys(ioc_dicts[c])
            /\ p[2] \in Range(Get(ioc_dicts[c], p[1])) }

RowPairs(df) == { << df[r].IOC_Type, df[r].IOC_Value >> : r \in 1 .. Len(df) }

\* C6: the rows of the table are exactly the distinct (IOC_Type, IOC_Value)
\* pairs occurring in some chunk mapping, each in exactly one row.
C6_RowsAreDistinctInputPairs ==
    pc \in { "ioc_done", "ioc_again" }
        => /\ RowPairs(iocs_df) = InputPairs
           /\ Len(iocs_df) = Cardinality(InputPairs)

C6_Witness ==
    /\ pc = "ioc_done"
    /\ Len(ioc_dicts) = 2
    /\ ioc_dicts[1] = << << "ip", << "1.1.1.1" >> >>, << "url", << >> >> >>
    /\ ioc_dicts[2] = << << "ip", << "1.1.1.1", "2.2.2.2" >> >> >>
    /\ Len(iocs_df) = 2

\* C7: aggregating the rows of an aggregate, reshaped as one single-entry
\* mapping per row, yields the same set of rows.
C7_AggregationIdempotent ==
    pc = "ioc_again" => RowPairs(iocs_df) = RowPairs(first_df)

C7_Witness ==
    /\ pc = "ioc_again"
    /\ Len(first_df) = 4
    /\ Len(iocs_df) = 4

====
